---- MODULE Spec2Model ----
(***************************************************************************)
(* A model of the FFT repository (fft.hpp, four1plus.hpp, four1tmpl.hpp).  *)
(*                                                                         *)
(* Arithmetic is exact.  The only irrational numbers the transforms use    *)
(* are cos and sin of multiples of 2*pi/RingN, so a real number is kept    *)
(* as a dyadic combination of the basis                                    *)
(*     b_0 = 1,  b_j = 2*cos(2*pi*j/RingN)   (0 < j < RingQ)               *)
(* of the real cyclotomic field: [v |-> coefficients, e |-> exponent]      *)
(* stands for (SUM_j v[j]*b_j) / 2^e, normalised so that equal numbers     *)
(* have equal representations.  A complex number is a pair of reals        *)
(* [re, im], as std::complex<T> is, and every complex operation is         *)
(* computed from the real ones the way the source computes it.             *)
(***************************************************************************)
EXTENDS Integers, Sequences, FiniteSets, TLC

\* ------------------------------------------------------------------ bounds
\* Largest transform length is 2^MaxLog2N.
MaxLog2N == 4
\* Number of transform calls made on one pair of buffers.
MaxCalls == 2

RECURSIVE Pow2(_)
Pow2(k) == IF k = 0 THEN 1 ELSE 2 * Pow2(k - 1)

MaxN == Pow2(MaxLog2N)
\* Angles are multiples of 2*pi/RingN; sin(pi/N) of four1plus needs 2*MaxN.
RingN == 2 * MaxN
RingQ == RingN \div 4
Idx == 1 .. RingQ

\* ------------------------------------------------------- exact real numbers
\* Coefficient vectors are tuples of length RingQ; entry j + 1 multiplies b_j.
RECURSIVE UnitFrom(_, _, _)
UnitFrom(j, c, k) ==
    IF k > RingQ THEN <<>>
    ELSE <<IF k = j + 1 THEN c ELSE 0>> \o UnitFrom(j, c, k + 1)

UnitVec(j, c) == UnitFrom(j, c, 1)
ZeroVec == UnitVec(0, 0)

RECURSIVE VecSum(_, _, _, _, _)
\* The vector sx*xv + sy*yv, from entry k on.
VecSum(sx, xv, sy, yv, k) ==
    IF k > RingQ THEN <<>>
    ELSE <<sx * xv[k] + sy * yv[k]>> \o VecSum(sx, xv, sy, yv, k + 1)

RECURSIVE VecHalf(_, _)
VecHalf(v, k) == IF k > RingQ THEN <<>> ELSE <<v[k] \div 2>> \o VecHalf(v, k + 1)

\* Coordinates of 2*cos(2*pi*j/RingN) for any integer j.
CosVec(j) ==
    LET a == j % RingN
        r == IF a > 2 * RingQ THEN RingN - a ELSE a
    IN  IF r = 0 THEN UnitVec(0, 2)
        ELSE IF r < RingQ THEN UnitVec(r, 1)
        ELSE IF r = RingQ THEN ZeroVec
        ELSE IF r < 2 * RingQ THEN UnitVec(2 * RingQ - r, -1)
        ELSE UnitVec(0, -2)

\* Coordinates of the product b_a * b_j: 2cos(x)*2cos(y) = 2cos(x+y) + 2cos(x-y).
BasisProdVec(a, j) ==
    IF a = 0 THEN UnitVec(j, 1)
    ELSE IF j = 0 THEN UnitVec(a, 1)
    ELSE VecSum(1, CosVec(a + j), 1, CosVec(a - j), 1)

RECURSIVE Terms(_, _, _)
\* The terms <<a, c>> with c the coefficient of b_(k-1) in b_(a-1) * b_(j-1),
\* c # 0, for a from a0 on: coordinate k of x * b_(j-1) is the sum of c * x[a].
Terms(j, k, a) ==
    IF a > RingQ THEN <<>>
    ELSE LET c == BasisProdVec(a - 1, j - 1)[k]
         IN  (IF c = 0 THEN <<>> ELSE <<<<a, c>>>>) \o Terms(j, k, a + 1)

RECURSIVE TermsRow(_, _)
TermsRow(j, k) == IF k > RingQ THEN <<>> ELSE <<Terms(j, k, 1)>> \o TermsRow(j, k + 1)

RECURSIVE TermsTable(_)
TermsTable(j) == IF j > RingQ THEN <<>> ELSE <<TermsRow(j, 1)>> \o TermsTable(j + 1)

BasisTerms == TermsTable(1)

AllEven(v) == \A k \in Idx : v[k] % 2 = 0

RECURSIVE Norm(_, _)
Norm(v, e) ==
    IF e > 0 /\ AllEven(v) THEN Norm(VecHalf(v, 1), e - 1) ELSE [v |-> v, e |-> e]

RInt(c) == [v |-> UnitVec(0, c), e |-> 0]
RZero == RInt(0)
ROne == RInt(1)

RAdd(x, y) ==
    IF x.e = y.e THEN Norm(VecSum(1, x.v, 1, y.v, 1), x.e)
    ELSE IF x.e > y.e THEN Norm(VecSum(1, x.v, Pow2(x.e - y.e), y.v, 1), x.e)
    ELSE Norm(VecSum(Pow2(y.e - x.e), x.v, 1, y.v, 1), y.e)

RNeg(x) == [v |-> VecSum(-1, x.v, 0, x.v, 1), e |-> x.e]

RSub(x, y) ==
    IF x.e = y.e THEN Norm(VecSum(1, x.v, -1, y.v, 1), x.e)
    ELSE IF x.e > y.e THEN Norm(VecSum(1, x.v, 0 - Pow2(x.e - y.e), y.v, 1), x.e)
    ELSE Norm(VecSum(Pow2(y.e - x.e), x.v, -1, y.v, 1), y.e)

RECURSIVE SupportSeq(_, _)
\* The indices from k on at which a coefficient vector is not zero.
SupportSeq(v, k) ==
    IF k > RingQ THEN <<>>
    ELSE (IF v[k] = 0 THEN <<>> ELSE <<k>>) \o SupportSeq(v, k + 1)

RECURSIVE SumTerms(_, _, _)
SumTerms(xv, ts, i) ==
    IF i > Len(ts) THEN 0
    ELSE ts[i][2] * xv[ts[i][1]] + SumTerms(xv, ts, i + 1)

RECURSIVE SumProd(_, _, _, _, _)
\* Coordinate k of the product of xv and yv, summed over the support sy of yv.
SumProd(xv, yv, k, sy, i) ==
    IF i > Len(sy) THEN 0
    ELSE yv[sy[i]] * SumTerms(xv, BasisTerms[sy[i]][k], 1)
         + SumProd(xv, yv, k, sy, i + 1)

RECURSIVE VecMul(_, _, _, _)
VecMul(xv, yv, sy, k) ==
    IF k > RingQ THEN <<>>
    ELSE <<SumProd(xv, yv, k, sy, 1)>> \o VecMul(xv, yv, sy, k + 1)

RMul(x, y) ==
    LET sx == SupportSeq(x.v, 1)
        sy == SupportSeq(y.v, 1)
    IN  IF Len(sy) <= Len(sx)
        THEN Norm(VecMul(x.v, y.v, sy, 1), x.e + y.e)
        ELSE Norm(VecMul(y.v, x.v, sx, 1), x.e + y.e)

\* cos and sin of the angle 2*pi*j/RingN.
RCos(j) == Norm(CosVec(j), 1)
RSin(j) == RCos(j - RingQ)

\* --------------------------------------------------------- complex numbers
Cx(re, im) == [re |-> re, im |-> im]
CInt(a, b) == Cx(RInt(a), RInt(b))
CZero == CInt(0, 0)
CAdd(z, w) == Cx(RAdd(z.re, w.re), RAdd(z.im, w.im))
CSub(z, w) == Cx(RSub(z.re, w.re), RSub(z.im, w.im))


\* ------------------------------------------------------------- buffers
\* A C array of length N is a sequence; C index i is sequence index i + 1.
At(buf, i) == buf[i + 1]
Put(buf, i, z) == [buf EXCEPT ![i + 1] = z]
\* std::swap(data[a], data[b])
Swap(buf, a, b) == [buf EXCEPT ![a + 1] = buf[b + 1], ![b + 1] = buf[a + 1]]

\* Statement sequencing: the value v left by one statement is computed before
\* the value w of the code that follows it.
Then(v, w) == IF v = v THEN w ELSE w

\* ------------------------------------------------------ twiddle factors
\* theta = M_PI*2*d/n, phi = theta*a*i: the angle is d*a*i*(RingN/n) units.
RECURSIVE TwiddlesLoop(_, _, _, _)
\* for (i = ...; i < n/4; ++i) twids[i] = complex(cos(phi), sin(phi))
TwiddlesLoop(a, d, nn, i) ==
    IF i >= nn \div 4 THEN <<>>
    ELSE LET phi == d * a * i * (RingN \div nn)
         IN  <<Cx(RCos(phi), RSin(phi))>> \o TwiddlesLoop(a, d, nn, i + 1)

\* Variants of twiddles: one angle step for all three tables; the angle sign
\* of the direction dropped.
twiddles_SameStep(a, d, nn) == TwiddlesLoop(1, d, nn, 0)
twiddles_Unsigned(a, d, nn) == TwiddlesLoop(a, 1, nn, 0)

twiddles(a, d, nn) == TwiddlesLoop(a, d, nn, 0)

\* Variant of the tables: the harmonics of t1 and t2 exchanged.
Twiddle_Exchanged(D, N) ==
    [t1 |-> twiddles(2, D, N), t2 |-> twiddles(1, D, N), t3 |-> twiddles(3, D, N)]

\* const std::array<...> Twiddle<T, D, N>::t1(twiddles(1)), t2, t3
Twiddle(D, N) ==
    [t1 |-> twiddles(1, D, N), t2 |-> twiddles(2, D, N), t3 |-> twiddles(3, D, N)]

\* ------------------------------------------------------------ butterfly
\* Variant of direction: the forward rotation whatever the direction.
direction_ForwardOnly(D, z) == Cx(z.im, RNeg(z.re))

\* Variant of direction: the two rotations exchanged.
direction_Exchanged(D, z) ==
    IF D > 0 THEN Cx(z.im, RNeg(z.re)) ELSE Cx(RNeg(z.im), z.re)

\* Simplified multiplication for direction product.
direction(D, z) == IF D > 0 THEN Cx(RNeg(z.im), z.re) ELSE Cx(z.im, RNeg(z.re))

\* Variant of mul: z.imag() squared where z.imag() * w.imag() is meant.
mul_ImagSquared(z, w) ==
    Cx(RSub(RMul(z.re, w.re), RMul(z.im, z.im)),
       RAdd(RMul(z.im, w.re), RMul(z.re, w.im)))

\* Variant of mul: the product with the conjugate of w.
mul_ConjugateSecond(z, w) ==
    Cx(RAdd(RMul(z.re, w.re), RMul(z.im, w.im)),
       RSub(RMul(z.im, w.re), RMul(z.re, w.im)))

\* Fast multiplication (bypass NaN checking).
mul(z, w) ==
    Cx(RSub(RMul(z.re, w.re), RMul(z.im, w.im)),
       RAdd(RMul(z.im, w.re), RMul(z.re, w.im)))

\* Variant of the two-point butterfly: the difference taken the other way.
MixRadix2_Reversed(buf, base) ==
    LET a0 == At(buf, base)
        a1 == At(buf, base + 1)
    IN  Put(Put(buf, base, CAdd(a0, a1)), base + 1, CSub(a1, a0))

\* Butterfly<T, D, 2>::mix on the block starting at base.
MixRadix2(buf, base) ==
    LET a0 == At(buf, base)
        a1 == At(buf, base + 1)
    IN  Put(Put(buf, base, CAdd(a0, a1)), base + 1, CSub(a0, a1))

\* Variant of the four stores: data[i0] read again after it is written
\* (data[i1] = data[i0] - a2 + b1, and so on) instead of the copy a0.
MixStore_ReadAfterWrite(D, buf, base, i0, N4, a0, a1, a2, a3) ==
    LET i1 == i0 + N4
        i2 == i1 + N4
        i3 == i2 + N4
        b0 == CAdd(a1, a3)
        b1 == direction(D, CSub(a1, a3))
        s0 == Put(buf, base + i0, CAdd(CAdd(a0, a2), b0))
        s1 == Put(s0, base + i1, CAdd(CSub(At(s0, base + i0), a2), b1))
        s2 == Put(s1, base + i2, CSub(CAdd(At(s1, base + i0), a2), b0))
    IN  Put(s2, base + i3, CSub(CSub(At(s2, base + i0), a2), b1))

\* The four stores of one radix-4 butterfly (index i0 of the block at base).
MixStore(D, buf, base, i0, N4, a0, a1, a2, a3) ==
    LET i1 == i0 + N4
        i2 == i1 + N4
        i3 == i2 + N4
        b0 == CAdd(a1, a3)
        b1 == direction(D, CSub(a1, a3))
        s0 == Put(buf, base + i0, CAdd(CAdd(a0, a2), b0))
        s1 == Put(s0, base + i1, CAdd(CSub(a0, a2), b1))
        s2 == Put(s1, base + i2, CSub(CAdd(a0, a2), b0))
    IN  Put(s2, base + i3, CSub(CSub(a0, a2), b1))

\* Variant of the index 0 butterfly: the quarters read in storage order.
MixIndex0_StorageOrder(D, buf, base, N4) ==
    MixStore(D, buf, base, 0, N4,
             At(buf, base), At(buf, base + N4),
             At(buf, base + 2 * N4), At(buf, base + 3 * N4))

\* Index 0 twiddles are always (1+0i).
MixIndex0(D, buf, base, N4) ==
    MixStore(D, buf, base, 0, N4,
             At(buf, base), At(buf, base + 2 * N4),
             At(buf, base + N4), At(buf, base + 3 * N4))

\* The body of the loop: a0 = data[i0]; a2 = mul(data[i1], twiddle.t2[i0]);
\* a1 = mul(data[i2], twiddle.t1[i0]); a3 = mul(data[i3], twiddle.t3[i0]);
\* then the four stores.
MixBody(D, tw, buf, base, N4, i0) ==
    MixStore(D, buf, base, i0, N4,
             At(buf, base + i0),
             mul(At(buf, base + i0 + 2 * N4), At(tw.t1, i0)),
             mul(At(buf, base + i0 + N4), At(tw.t2, i0)),
             mul(At(buf, base + i0 + 3 * N4), At(tw.t3, i0)))

RECURSIVE MixLoop(_, _, _, _, _, _)
\* for (i0 = ...; i0 < N4; ++i0): index 1+ must multiply twiddles.
MixLoop(D, tw, buf, base, N4, i0) ==
    IF i0 >= N4 THEN buf
    ELSE LET s == MixBody(D, tw, buf, base, N4, i0)
         IN  Then(s, MixLoop(D, tw, s, base, N4, i0 + 1))

RECURSIVE mix(_, _, _, _)
\* Butterfly<T, D, N>::mix(data + base); N = 2 and N = 1 end the recursion.
mix(D, N, buf, base) ==
    IF N = 1 THEN buf
    ELSE IF N = 2 THEN MixRadix2(buf, base)
    ELSE LET N4 == N \div 4
             q0 == mix(D, N4, buf, base)
             q1 == mix(D, N4, q0, base + N4)
             q2 == mix(D, N4, q1, base + N4 * 2)
             q3 == mix(D, N4, q2, base + N4 * 3)
             s == MixIndex0(D, q3, base, N4)
         IN  Then(q0, Then(q1, Then(q2, Then(q3, Then(s,
             MixLoop(D, Twiddle(D, N), s, base, N4, 1))))))

\* ---------------------------------------------------- bit reversal pattern
RECURSIVE ispow4_impl(_, _)
\* Variant of ispow4_impl: n passed on where n >> 1 is meant.
ispow4_impl_NoHalving(nn, m) ==
    IF m * 4 < nn THEN ispow4_impl(nn, m * 2) ELSE m * 4 = nn

ispow4_impl(nn, m) ==
    IF m * 4 < nn THEN ispow4_impl(nn \div 2, m * 2) ELSE m * 4 = nn

RECURSIVE pattern_size_impl(_, _)
pattern_size_impl(nn, m) ==
    IF m * 4 < nn THEN pattern_size_impl(nn \div 2, m * 2) ELSE m

ispow4(N) == ispow4_impl(N, 1)

\* Variant of pattern_size: (m << 1) < n where (m << 2) < n is meant.
RECURSIVE pattern_size_impl_Shift1(_, _)
pattern_size_impl_Shift1(nn, m) ==
    IF m * 2 < nn THEN pattern_size_impl_Shift1(nn \div 2, m * 2) ELSE m
pattern_size_Shift1(N) == pattern_size_impl_Shift1(N, 1)

pattern_size(N) == pattern_size_impl(N, 1)

\* Variant of the inner loop: the span added twice.
RECURSIVE BitpatternPush_DoubleSpan(_, _, _, _)
BitpatternPush_DoubleSpan(l, nn, m, j) ==
    IF j >= m THEN l
    ELSE BitpatternPush_DoubleSpan(Append(l, At(l, j) + 2 * nn), nn, m, j + 1)

RECURSIVE BitpatternPush(_, _, _, _)
\* for (j = 0; j < m; j++) l.push_back(l[j] + n)
BitpatternPush(l, nn, m, j) ==
    IF j >= m THEN l ELSE BitpatternPush(Append(l, At(l, j) + nn), nn, m, j + 1)

RECURSIVE BitpatternWhile(_, _, _)
\* while ((m << 2) < n) { n >>= 1; ...; m <<= 1; }
BitpatternWhile(l, nn, m) ==
    IF m * 4 < nn
    THEN BitpatternWhile(BitpatternPush(l, nn \div 2, m, 0), nn \div 2, m * 2)
    ELSE l

\* Variant of bitpattern: without if (ispow4) n <<= 1.
bitpattern_NoPow4Shift(nn, p4) == BitpatternWhile(<<0>>, (nn * nn) * 2, 1)

bitpattern(nn, p4) ==
    LET n1 == (nn * nn) * 2
        n2 == IF p4 THEN n1 * 2 ELSE n1
    IN  BitpatternWhile(<<0>>, n2, 1)

\* BitReverse<pattern_size, ispow4>::pattern for Transform<T, N>: the first
\* pattern_size entries of the vector bitpattern returns.
Pattern(N) ==
    LET l == bitpattern(pattern_size(N), ispow4(N))
    IN  SubSeq(l, 1, pattern_size(N))

\* ------------------------------------------------------ in-place reindex
\* Variant of the four swaps: the second and third pair without the cross
\* offsets (k1 += m where k1 += m2 and k1 -= m are meant).
ReindexBody4_Straight(buf, pat, m, k, j) ==
    LET j1 == j + At(pat, k)
        k1 == k + At(pat, j)
        s1 == Swap(buf, j1, k1)
        s2 == Swap(s1, j1 + m, k1 + m)
        s3 == Swap(s2, j1 + 2 * m, k1 + 2 * m)
    IN  Swap(s3, j1 + 3 * m, k1 + 3 * m)

\* Body of the inner loop of the power-of-four branch: four swaps.
ReindexBody4(buf, pat, m, k, j) ==
    LET j1 == j + At(pat, k)
        k1 == k + At(pat, j)
        s1 == Swap(buf, j1, k1)
        s2 == Swap(s1, j1 + m, k1 + 2 * m)
        s3 == Swap(s2, j1 + 2 * m, k1 + m)
    IN  Swap(s3, j1 + 3 * m, k1 + 3 * m)

RECURSIVE ReindexInner4(_, _, _, _, _)
\* for (j = ...; j < k; j++)
ReindexInner4(buf, pat, m, k, j) ==
    IF j >= k THEN buf
    ELSE LET s == ReindexBody4(buf, pat, m, k, j)
         IN  Then(s, ReindexInner4(s, pat, m, k, j + 1))

RECURSIVE ReindexOuter4(_, _, _, _)
\* for (k = ...; k < m; k++) { inner loop; the diagonal swap }
ReindexOuter4(buf, pat, m, k) ==
    IF k >= m THEN buf
    ELSE LET inner == ReindexInner4(buf, pat, m, k, 0)
             j1 == k + m + At(pat, k)
             k1 == j1 + m
             s == Swap(inner, j1, k1)
         IN  Then(inner, Then(s, ReindexOuter4(s, pat, m, k + 1)))

\* Body of the inner loop of the mixed branch: two swaps.
ReindexBody2(buf, pat, m, k, j) ==
    LET j1 == j + At(pat, k)
        k1 == k + At(pat, j)
    IN  Swap(Swap(buf, j1, k1), j1 + m, k1 + m)

RECURSIVE ReindexInner2(_, _, _, _, _)
ReindexInner2(buf, pat, m, k, j) ==
    IF j >= k THEN buf
    ELSE LET s == ReindexBody2(buf, pat, m, k, j)
         IN  Then(s, ReindexInner2(s, pat, m, k, j + 1))

RECURSIVE ReindexOuter2(_, _, _, _)
ReindexOuter2(buf, pat, m, k) ==
    IF k >= m THEN buf
    ELSE LET s == ReindexInner2(buf, pat, m, k, 0)
         IN  Then(s, ReindexOuter2(s, pat, m, k + 1))

\* Transform::reindex(data)
reindex(N, buf) ==
    LET pat == Pattern(N)
        m == Len(pat)
    IN  IF ispow4(N) THEN ReindexOuter4(buf, pat, m, 0)
        ELSE ReindexOuter2(buf, pat, m, 1)

\* -------------------------------------------------- out-of-place reindex
\* The two arrays of an out-of-place call: mem.in is read, mem.out written;
\* mem.log lists the assignments out[a] = in[b] made, as pairs << a, b >>.
Mem(in, o) == [in |-> in, out |-> o, log |-> <<>>]
\* Variant of the copy: an exchange between the two arrays.
Copy_Exchange(mem, a, b) ==
    [mem EXCEPT !.out[a + 1] = mem.in[b + 1], !.in[b + 1] = mem.out[a + 1]]

\* out[a] = in[b]
Copy(mem, a, b) ==
    [mem EXCEPT !.out[a + 1] = mem.in[b + 1], !.log = Append(@, << a, b >>)]
\* out[a] = in[b]; out[b] = in[a];
Copy2(mem, a, b) == Copy(Copy(mem, a, b), b, a)

CopyBody4(mem, pat, m, k, j) ==
    LET j1 == j + At(pat, k)
        k1 == k + At(pat, j)
        s1 == Copy2(mem, j1, k1)
        s2 == Copy2(s1, j1 + m, k1 + 2 * m)
        s3 == Copy2(s2, j1 + 2 * m, k1 + m)
    IN  Copy2(s3, j1 + 3 * m, k1 + 3 * m)

RECURSIVE CopyInner4(_, _, _, _, _)
CopyInner4(mem, pat, m, k, j) ==
    IF j >= k THEN mem
    ELSE LET s == CopyBody4(mem, pat, m, k, j)
         IN  Then(s, CopyInner4(s, pat, m, k, j + 1))

\* Variant of the diagonal copies: the last quarter left out.
CopyDiag4_NoLast(mem, pat, m, k) ==
    LET k1 == k + At(pat, k)
        s1 == Copy(mem, k1, k1)
        j1 == k1 + m
        k2 == j1 + m
    IN  Copy2(s1, j1, k2)

\* The statements after the inner loop of the power-of-four branch.
CopyDiag4(mem, pat, m, k) ==
    LET k1 == k + At(pat, k)
        s1 == Copy(mem, k1, k1)
        j1 == k1 + m
        k2 == j1 + m
        s2 == Copy2(s1, j1, k2)
        k3 == k2 + m
    IN  Copy(s2, k3, k3)

RECURSIVE CopyOuter4(_, _, _, _)
CopyOuter4(mem, pat, m, k) ==
    IF k >= m THEN mem
    ELSE LET inner == CopyInner4(mem, pat, m, k, 0)
             s == CopyDiag4(inner, pat, m, k)
         IN  Then(inner, Then(s, CopyOuter4(s, pat, m, k + 1)))

CopyBody2(mem, pat, m, k, j) ==
    LET j1 == j + At(pat, k)
        k1 == k + At(pat, j)
    IN  Copy2(Copy2(mem, j1, k1), j1 + m, k1 + m)

RECURSIVE CopyInner2(_, _, _, _, _)
CopyInner2(mem, pat, m, k, j) ==
    IF j >= k THEN mem
    ELSE LET s == CopyBody2(mem, pat, m, k, j)
         IN  Then(s, CopyInner2(s, pat, m, k, j + 1))

\* Variant of the diagonal copies of the mixed branch: out[k1] = in[k1] made
\* twice, out[k1+m] = in[k1+m] not made.
CopyDiag2_TwiceSame(mem, pat, m, k) ==
    LET k1 == k + At(pat, k)
    IN  Copy(Copy(mem, k1, k1), k1, k1)

\* The statements after the inner loop of the mixed branch.
CopyDiag2(mem, pat, m, k) ==
    LET k1 == k + At(pat, k)
    IN  Copy(Copy(mem, k1, k1), k1 + m, k1 + m)

RECURSIVE CopyOuter2(_, _, _, _)
CopyOuter2(mem, pat, m, k) ==
    IF k >= m THEN mem
    ELSE LET inner == CopyInner2(mem, pat, m, k, 0)
             s == CopyDiag2(inner, pat, m, k)
         IN  Then(inner, Then(s, CopyOuter2(s, pat, m, k + 1)))

\* Transform::reindex(in, out)
reindexOut(N, mem) ==
    LET pat == Pattern(N)
        m == Len(pat)
    IN  IF ispow4(N) THEN CopyOuter4(mem, pat, m, 0)
        ELSE CopyOuter2(Copy(Copy(mem, 0, 0), m, m), pat, m, 1)

\* ------------------------------------------------------- Transform<T, N>
\* The size check of the static_assert: (N > 1) & !(N & (N - 1)).
RECURSIVE BitAnd(_, _)
BitAnd(a, b) ==
    IF a = 0 \/ b = 0 THEN 0
    ELSE (a % 2) * (b % 2) + 2 * BitAnd(a \div 2, b \div 2)

\* Transform::dft(data) (D = -1) and Transform::idft(data) (D = 1)
TransformInPlace(D, N, buf) ==
    LET r == reindex(N, buf)
    IN  Then(r, mix(D, N, r, 0))

\* Transform::dft(in, out) and Transform::idft(in, out)
TransformOutOfPlace(D, N, mem) ==
    LET r == reindexOut(N, mem)
    IN  Then(r, [r EXCEPT !.out = mix(D, N, r.out, 0)])


\* ------------------------------------------- the earlier implementations
\* operator* of cxlr.hpp (limited range multiplication).
CxlrMul(z, w) ==
    LET a == z.re
        b == z.im
        c == w.re
        d == w.im
    IN  Cx(RSub(RMul(a, c), RMul(b, d)), RAdd(RMul(a, d), RMul(b, c)))

\* Variant of wp: the sine of the inverse transform.
Wp_Inverse(N) ==
    LET h == RSin(RingN \div (2 * N))
    IN  Cx(RMul(RInt(-2), RMul(h, h)), RSin(RingN \div N))

\* T wp(-2.0*pow(sin(M_PI/N),2), -sin(2*M_PI/N)): pi/N is RingN/(2N) units.
Wp(N) ==
    LET h == RSin(RingN \div (2 * N))
    IN  Cx(RMul(RInt(-2), RMul(h, h)), RNeg(RSin(RingN \div N)))

\* The reverse-binary reindexer of four1plus and Four1tmpl.
RECURSIVE ReverseWhile(_, _)
\* while (m >= 1 && j >= m) { j -= m; m >>= 1; }  then  j += m
ReverseWhile(j, m) ==
    IF m >= 1 /\ j >= m THEN ReverseWhile(j - m, m \div 2) ELSE j + m

RECURSIVE ReverseLoop(_, _, _, _)
\* Variant of the loop: the swap made whenever j differs from i.
ReverseLoop_SwapBothWays(N, buf, i, j) ==
    Then(buf,
         IF i >= N THEN buf
         ELSE ReverseLoop(N, IF j # i THEN Swap(buf, i, j) ELSE buf,
                          i + 1, ReverseWhile(j, N \div 2)))

\* for (i = ..., j = ...; i < N; ++i) { if (j > i) swap; ... }
ReverseLoop(N, buf, i, j) ==
    Then(buf,
         IF i >= N THEN buf
         ELSE ReverseLoop(N, IF j > i THEN Swap(buf, i, j) ELSE buf,
                          i + 1, ReverseWhile(j, N \div 2)))

\* data[i] += temp;
DanielsonLanczosAdd(buf, i, temp) == Put(buf, i, CAdd(At(buf, i), temp))

\* data[j] = data[i] - temp; data[i] += temp;
DanielsonLanczosStore(buf, i, j, temp) ==
    DanielsonLanczosAdd(Put(buf, j, CSub(At(buf, i), temp)), i, temp)

\* temp = w * data[j]; then the two stores.
DanielsonLanczos(buf, w, i, j) ==
    DanielsonLanczosStore(buf, i, j, CxlrMul(w, At(buf, j)))

RECURSIVE Four1plusI(_, _, _, _, _)
\* for (i = ...; i < N; i += mmax * 2)
Four1plusI(N, buf, w, mmax, i) ==
    Then(buf,
         IF i >= N THEN buf
         ELSE Four1plusI(N, DanielsonLanczos(buf, w, i, i + mmax),
                         w, mmax, i + mmax * 2))

RECURSIVE Four1plusM(_, _, _, _, _, _)
\* for (m = ...; m < mmax; ++m) { inner loop; w += w * wp; }
Four1plusM(N, buf, w, wp, mmax, m) ==
    Then(<<buf, w>>,
         IF m >= mmax THEN buf
         ELSE Four1plusM(N, Four1plusI(N, buf, w, mmax, m),
                         CAdd(w, CxlrMul(w, wp)), wp, mmax, m + 1))

RECURSIVE Four1plusMmax(_, _, _)
\* for (mmax = ...; N > mmax; mmax <<= 1)
Four1plusMmax(N, buf, mmax) ==
    Then(buf,
         IF ~(N > mmax) THEN buf
         ELSE Four1plusMmax(N, Four1plusM(N, buf, CInt(1, 0), Wp(mmax * 2), mmax, 0),
                            mmax * 2))

\* four1plus(data)
four1plus(N, buf) == Four1plusMmax(N, ReverseLoop(N, buf, 0, 0), 1)

RECURSIVE Radix2Loop(_, _, _, _, _, _)
\* for (i = ...; i < N2; ++i) of Radix2::mix on the block at base
Radix2Loop(buf, base, w, wp, N2, i) ==
    Then(<<buf, w>>,
         IF i >= N2 THEN buf
         ELSE Radix2Loop(DanielsonLanczos(buf, w, base + i, base + i + N2),
                         base, CAdd(w, CxlrMul(w, wp)), wp, N2, i + 1))

RECURSIVE Radix2Mix(_, _, _)
\* Radix2<T, N>::mix(data + base); Radix2<T, 1> does nothing.
Radix2Mix(N, buf, base) ==
    IF N = 1 THEN buf
    ELSE Radix2Loop(Radix2Mix(N \div 2, Radix2Mix(N \div 2, buf, base),
                              base + N \div 2),
                    base, CInt(1, 0), Wp(N), N \div 2, 0)

\* Four1tmpl<T, N>::fft(data)
Four1tmplFft(N, buf) == Radix2Mix(N, ReverseLoop(N, buf, 0, 0), 0)

\* Variant of the size check: N > 0 where N > 1 is meant.
SizeCheck_Positive(N) == (N > 0) /\ (BitAnd(N, N - 1) = 0)

\* The size check of the static_assert: (N > 1) & !(N & (N - 1)).
SizeCheck(N) == (N > 1) /\ (BitAnd(N, N - 1) = 0)

\* The subscripts of bit.pattern that reindex evaluates, in either overload:
\* bit.pattern[k] and bit.pattern[j] for the k and j of the two loops
\* (k from 0 in the power-of-four branch, from 1 in the other; j < k), with
\* m = bit.pattern.size().
PatternSubscripts(N) ==
    LET m == Len(Pattern(N))
        first == IF ispow4(N) THEN 0 ELSE 1
    IN  UNION { {k} \cup { j \in 0 .. (m - 1) : j < k } : k \in first .. (m - 1) }

\* The subscript of twiddle.t1, t2 and t3 a step evaluates, if any.
TwiddleSubscripts(s) == IF s.op = "loop" THEN {s.i} ELSE {}

\* ------------------------------------------------ the steps of one call
\* One step of an in-place call.  A "swap" is one std::swap of reindex, of
\* data[i] and data[j].  The others belong to Butterfly<T, D, N>::mix on the
\* N elements at base: "leaf1" is the mix of length 1, "radix2" the mix of
\* length 2, "index0" the butterfly before the loop, "loop" the pass i of
\* the loop.  path lists the quarters (0 .. 3) that lead from the whole
\* array to the block: <<>> for the call itself, <<q>> for next.mix(data +
\* q*N4) of the whole array, and so on.
SwapStep(a, b) ==
    [op |-> "swap", N |-> 0, base |-> 0, i |-> a, j |-> b, path |-> <<>>]
MixStep(op, N, base, i0, path) ==
    [op |-> op, N |-> N, base |-> base, i |-> i0, j |-> 0, path |-> path]

\* The four swaps of the inner loop of the power-of-four branch.
ReindexSteps4Body(pat, m, k, j) ==
    << SwapStep(j + At(pat, k), k + At(pat, j)),
       SwapStep(j + At(pat, k) + m, k + At(pat, j) + 2 * m),
       SwapStep(j + At(pat, k) + 2 * m, k + At(pat, j) + m),
       SwapStep(j + At(pat, k) + 3 * m, k + At(pat, j) + 3 * m) >>

RECURSIVE ReindexSteps4Inner(_, _, _, _)
ReindexSteps4Inner(pat, m, k, j) ==
    IF j >= k THEN <<>>
    ELSE ReindexSteps4Body(pat, m, k, j) \o ReindexSteps4Inner(pat, m, k, j + 1)

RECURSIVE ReindexSteps4Outer(_, _, _)
ReindexSteps4Outer(pat, m, k) ==
    IF k >= m THEN <<>>
    ELSE ReindexSteps4Inner(pat, m, k, 0)
             \o << SwapStep(k + m + At(pat, k), k + m + At(pat, k) + m) >>
             \o ReindexSteps4Outer(pat, m, k + 1)

\* Variant of the two swaps: the second without k1 += m.
ReindexSteps2Body_SharedOperand(pat, m, k, j) ==
    << SwapStep(j + At(pat, k), k + At(pat, j)),
       SwapStep(j + At(pat, k) + m, k + At(pat, j)) >>

\* The two swaps of the inner loop of the mixed branch.
ReindexSteps2Body(pat, m, k, j) ==
    << SwapStep(j + At(pat, k), k + At(pat, j)),
       SwapStep(j + At(pat, k) + m, k + At(pat, j) + m) >>

RECURSIVE ReindexSteps2Inner(_, _, _, _)
ReindexSteps2Inner(pat, m, k, j) ==
    IF j >= k THEN <<>>
    ELSE ReindexSteps2Body(pat, m, k, j) \o ReindexSteps2Inner(pat, m, k, j + 1)

RECURSIVE ReindexSteps2Outer(_, _, _)
ReindexSteps2Outer(pat, m, k) ==
    IF k >= m THEN <<>>
    ELSE ReindexSteps2Inner(pat, m, k, 0) \o ReindexSteps2Outer(pat, m, k + 1)

\* The swaps of Transform::reindex(data), in the order the loops make them.
ReindexSteps(N) ==
    IF ispow4(N) THEN ReindexSteps4Outer(Pattern(N), pattern_size(N), 0)
    ELSE ReindexSteps2Outer(Pattern(N), pattern_size(N), 1)

RECURSIVE MixLoopSteps(_, _, _, _)
\* Variant of the loop: i0 <= N4 where i0 < N4 is meant.
MixLoopSteps_Inclusive(N, base, path, i0) ==
    IF i0 > N \div 4 THEN <<>>
    ELSE << MixStep("loop", N, base, i0, path) >>
             \o MixLoopSteps(N, base, path, i0 + 1)

\* for (i0 = ...; i0 < N4; ++i0)
MixLoopSteps(N, base, path, i0) ==
    IF i0 >= N \div 4 THEN <<>>
    ELSE << MixStep("loop", N, base, i0, path) >>
             \o MixLoopSteps(N, base, path, i0 + 1)

RECURSIVE MixSteps(_, _, _)
\* Variant of the steps of mix: the recursion ending at length 2 as it does
\* at length 1, with no two-point butterfly.
MixSteps_LeafAtTwo(N, base, path) ==
    IF N <= 2 THEN << MixStep("leaf1", N, base, 0, path) >>
    ELSE MixSteps(N \div 4, base, Append(path, 0))
             \o MixSteps(N \div 4, base + N \div 4, Append(path, 1))
             \o MixSteps(N \div 4, base + (N \div 4) * 2, Append(path, 2))
             \o MixSteps(N \div 4, base + (N \div 4) * 3, Append(path, 3))
             \o << MixStep("index0", N, base, 0, path) >>
             \o MixLoopSteps(N, base, path, 1)

\* Variant of the steps of mix: the index 0 butterfly before the last
\* next.mix call.
MixSteps_CombineEarly(N, base, path) ==
    IF N = 1 THEN << MixStep("leaf1", 1, base, 0, path) >>
    ELSE IF N = 2 THEN << MixStep("radix2", 2, base, 0, path) >>
    ELSE MixSteps(N \div 4, base, Append(path, 0))
             \o MixSteps(N \div 4, base + N \div 4, Append(path, 1))
             \o MixSteps(N \div 4, base + (N \div 4) * 2, Append(path, 2))
             \o << MixStep("index0", N, base, 0, path) >>
             \o MixSteps(N \div 4, base + (N \div 4) * 3, Append(path, 3))
             \o MixLoopSteps(N, base, path, 1)

\* Variant of the steps of mix: the loop starting at index 0.
MixSteps_LoopFromZero(N, base, path) ==
    IF N = 1 THEN << MixStep("leaf1", 1, base, 0, path) >>
    ELSE IF N = 2 THEN << MixStep("radix2", 2, base, 0, path) >>
    ELSE MixSteps(N \div 4, base, Append(path, 0))
             \o MixSteps(N \div 4, base + N \div 4, Append(path, 1))
             \o MixSteps(N \div 4, base + (N \div 4) * 2, Append(path, 2))
             \o MixSteps(N \div 4, base + (N \div 4) * 3, Append(path, 3))
             \o << MixStep("index0", N, base, 0, path) >>
             \o MixLoopSteps(N, base, path, 0)

\* The steps of Butterfly<T, D, N>::mix(data + base): next.mix(data),
\* next.mix(data+i1), next.mix(data+i2), next.mix(data+i3), index 0, loop.
MixSteps(N, base, path) ==
    IF N = 1 THEN << MixStep("leaf1", 1, base, 0, path) >>
    ELSE IF N = 2 THEN << MixStep("radix2", 2, base, 0, path) >>
    ELSE MixSteps(N \div 4, base, Append(path, 0))
             \o MixSteps(N \div 4, base + N \div 4, Append(path, 1))
             \o MixSteps(N \div 4, base + (N \div 4) * 2, Append(path, 2))
             \o MixSteps(N \div 4, base + (N \div 4) * 3, Append(path, 3))
             \o << MixStep("index0", N, base, 0, path) >>
             \o MixLoopSteps(N, base, path, 1)

\* reindex(data); Butterfly<T, D, N>::mix(&data[0]);
Schedule(N) == ReindexSteps(N) \o MixSteps(N, 0, <<>>)

\* What one step does to the array.
Exec(D, s, buf) ==
    CASE s.op = "swap" -> Swap(buf, s.i, s.j)
      [] s.op = "leaf1" -> buf
      [] s.op = "radix2" -> MixRadix2(buf, s.base)
      [] s.op = "index0" -> MixIndex0(D, buf, s.base, s.N \div 4)
      [] s.op = "loop" ->
            MixBody(D, Twiddle(D, s.N), buf, s.base, s.N \div 4, s.i)

\* The elements a step reads and writes, in the order of its statements.
Footprint(s) ==
    CASE s.op = "swap" -> << s.i, s.j >>
      [] s.op = "leaf1" -> << >>
      [] s.op = "radix2" -> << s.base, s.base + 1 >>
      [] s.op \in {"index0", "loop"} ->
            << s.base + s.i, s.base + s.i + s.N \div 4,
               s.base + s.i + (s.N \div 4) * 2, s.base + s.i + (s.N \div 4) * 3 >>

\* Variant of the accesses: a swap of two equal samples left out.
Accessed_SkipEqual(s, buf) ==
    IF s.op = "swap" /\ At(buf, s.i) = At(buf, s.j) THEN << >> ELSE Footprint(s)

\* The elements the step accesses when the array holds buf: no statement of
\* reindex or mix tests a sample.
Accessed(s, buf) == Footprint(s)

\* ----------------------------------------------------------- the inputs
\* Exact complex product and scaling, for forming the inputs.
CTimes(z, w) ==
    Cx(RSub(RMul(z.re, w.re), RMul(z.im, w.im)),
       RAdd(RMul(z.re, w.im), RMul(z.im, w.re)))
Scale(c, xs) == [i \in 1 .. Len(xs) |-> CTimes(c, xs[i])]
Plus(xs, ys) == [i \in 1 .. Len(xs) |-> CAdd(xs[i], ys[i])]
Zeros(N) == [i \in 1 .. N |-> CZero]

\* 0 everywhere except the value 1 at index p.
Impulse(N, p) == [i \in 1 .. N |-> IF i = p + 1 THEN CInt(1, 0) ELSE CZero]
\* A sequence whose samples are pairwise different at every index.
Dense(N) == [i \in 1 .. N |-> CInt(i, (((i - 1) * (i - 1)) % 5) - 2)]

\* The inputs a*x + b*y, with x an impulse and y the dense sequence: the
\* impulses at the first, second and last index, the dense sequence, and a
\* combination of the two with complex scalars.
Form(N, p, a, b) == [x |-> Impulse(N, p), y |-> Dense(N), a |-> a, b |-> b]
Inputs(N) ==
    { Form(N, p, CInt(1, 0), CZero) : p \in {0, 1, N - 1} }
        \cup { Form(N, 1, CZero, CInt(1, 0)), Form(N, 1, CInt(2, 1), CInt(-1, 3)) }
Combine(l) == Plus(Scale(l.a, l.x), Scale(l.b, l.y))

\* bitpattern has not been called.
NotCalled == [pc |-> "none", l |-> <<>>, n |-> 0, m |-> 0]

\* ------------------------------------------------- the static storage
\* The lengths N, N/4, ... for which Butterfly<T, D, N> has twiddle tables.
RECURSIVE Levels(_)
Levels(N) == IF N < 4 THEN {} ELSE {N} \cup Levels(N \div 4)

\* Variant of the static storage: one set of tables for both directions.
StaticInit_OneDirection(N) ==
    [twiddle |-> [D \in {-1, 1} |-> [k \in Levels(N) |-> Twiddle(-1, k)]],
     bit |-> Pattern(N)]

\* The static const members once the program has started: Twiddle<T, D, N>::
\* t1, t2, t3 of every Butterfly the transform instantiates, for both
\* directions, and BitReverse<pattern_size, ispow4>::pattern.
StaticInit(N) ==
    [twiddle |-> [D \in {-1, 1} |-> [k \in Levels(N) |-> Twiddle(D, k)]],
     bit |-> Pattern(N)]

\* No tables: the program did not compile.
NoTables == [twiddle |-> <<>>, bit |-> <<>>]

\* ------------------------------ the earlier variant with lazy tables
\* The execution contexts that use FFT<T, N>::dft of the earlier variant,
\* and the longest array they are followed on.
Contexts == 1 .. 3
MaxLazyN == 16

\* The earlier variant is not part of the running program.
NotLoaded == [t |-> <<>>, ctx |-> <<>>]

\* A context that is about to construct Radix4<T, N, -1>: pc is its place,
\* i the index of the loop it is in, k the table of its next store,
\* skipped whether it found the tables initialised, stale whether mix read
\* an entry nobody had written.
Fresh == [pc |-> "start", i |-> 0, k |-> 1, skipped |-> FALSE, stale |-> FALSE]

\* std::array<std::complex<T>, N/4> Radix4<T, N, D>::t1 {0}, t2, t3: static
\* storage, all zero when the program starts.  t[1], t[2], t[3] are t1, t2, t3.
LazyInit(N) ==
    [t |-> << Zeros(N \div 4), Zeros(N \div 4), Zeros(N \div 4) >>,
     ctx |-> [c \in Contexts |-> Fresh]]

\* Variant of the stores of one pass: t3[i] first, t1[i] last.
FillTable_Reversed(k) == 4 - k
\* The table the k-th store of one pass of the loop writes: t1[i], t2[i],
\* t3[i] in this order.
FillTable(k) == k

\* std::complex<T>(cos(phi*h), sin(phi*h)) with phi = i*theta, theta =
\* M_PI*2*D/N, D = -1.
LazyEntry(N, h, i) ==
    Cx(RCos((-1) * h * i * (RingN \div N)), RSin((-1) * h * i * (RingN \div N)))

\* ------------------------------------------------------------ the state
VARIABLES
    tables,   \* the static const twiddle tables and bit reversal pattern
    pat,      \* the call of bitpattern that initialises BitReverse::pattern
    lazy,     \* the earlier variant: Radix4<T, N, -1>::t1, t2, t3 and its users
    n,        \* the array length N the program is built for
    built,    \* whether Transform<T, N> could be instantiated
    lin,      \* how the first input was formed: a*x + b*y
    data,     \* the caller's array of the in-place calls, "in" of the others
    out,      \* the caller's output array of the out-of-place calls
    calls,    \* the calls made so far
    hist,     \* data before the first call and after each call
    run       \* the in-place call in progress, when it is followed step by step

vars == <<n, built, tables, pat, lazy, lin, data, out, calls, hist, run>>

\* No call in progress.
Idle == [dir |-> 0, todo |-> <<>>, trace |-> <<>>, prev |-> <<>>]

Init ==
    /\ n \in 0 .. MaxN
    /\ built = SizeCheck(n)
    /\ tables = IF built THEN StaticInit(n) ELSE NoTables
    /\ pat = NotCalled
    /\ lazy = NotLoaded
    /\ lin \in Inputs(n)
    /\ data = Combine(lin)
    /\ out = Zeros(n)
    /\ calls = <<>>
    /\ hist = <<data>>
    /\ run = Idle

\* A call is possible only in a program that compiled.
CanCall == built /\ Len(calls) < MaxCalls

InPlace(name, result) ==
    /\ data' = result
    /\ calls' = Append(calls, name)
    /\ hist' = Append(hist, result)
    /\ UNCHANGED <<n, built, tables, pat, lazy, lin, out, run>>

OutOfPlace(name, mem) ==
    /\ data' = mem.in
    /\ out' = mem.out
    /\ calls' = Append(calls, name)
    /\ hist' = Append(hist, mem.in)
    /\ UNCHANGED <<n, built, tables, pat, lazy, lin, run>>

\* FFT::dft(data)
Dft == CanCall /\ InPlace("dft", TransformInPlace(-1, n, data))
\* FFT::idft(data)
Idft == CanCall /\ InPlace("idft", TransformInPlace(1, n, data))
\* FFT::dft(in, out)
DftOut ==
    CanCall /\ OutOfPlace("dft_out",
                          TransformOutOfPlace(-1, n, Mem(data, out)))
\* FFT::idft(in, out)
IdftOut ==
    CanCall /\ OutOfPlace("idft_out",
                          TransformOutOfPlace(1, n, Mem(data, out)))
\* four1plus(data)
Four1plus == CanCall /\ InPlace("four1plus", four1plus(n, data))
\* Four1tmpl<T, N>::fft(data)
Four1tmpl == CanCall /\ InPlace("four1tmpl", Four1tmplFft(n, data))

Next == Dft \/ Idft \/ DftOut \/ IdftOut

Spec == Init /\ [][Next]_vars

\* The forward transforms the test fixture runs.
NextForward == Dft \/ Four1plus \/ Four1tmpl

SpecForward == Init /\ [][NextForward]_vars

\* An in-place call followed step by step.  run.dir is D of the call, run.todo
\* the steps still to make, run.trace the steps made with what each accessed,
\* run.prev the array before the last step.
Begin(D) ==
    /\ CanCall /\ run = Idle
    /\ run' = [dir |-> D, todo |-> Schedule(n), trace |-> <<>>, prev |-> data]
    /\ UNCHANGED <<n, built, tables, pat, lazy, lin, data, out, calls, hist>>

\* The steps still to make once the step at position k is made.
Without(todo, k) == SubSeq(todo, 1, k - 1) \o SubSeq(todo, k + 1, Len(todo))

\* The next step of run.todo is made and recorded.
Make ==
    /\ data' = Exec(run.dir, Head(run.todo), data)
    /\ run' = [run EXCEPT
                  !.todo = Tail(@),
                  !.trace = Append(@, [step |-> Head(run.todo),
                                       acc |-> Accessed(Head(run.todo), data)]),
                  !.prev = data]
    /\ UNCHANGED <<n, built, tables, pat, lazy, lin, out, calls, hist>>

\* FFT::dft(data) and FFT::idft(data) begin.
BeginDft == Begin(-1)
BeginIdft == Begin(1)
\* The next statement of the call, in the order of the code.
Step == run.dir # 0 /\ run.todo # <<>> /\ Make
\* The call returns.
Return ==
    /\ run.dir # 0 /\ run.todo = <<>>
    /\ calls' = Append(calls, IF run.dir < 0 THEN "dft" ELSE "idft")
    /\ hist' = Append(hist, data)
    /\ run' = Idle
    /\ UNCHANGED <<n, built, tables, pat, lazy, lin, data, out>>

NextSteps == BeginDft \/ BeginIdft \/ Step \/ Return

SpecSteps == Init /\ [][NextSteps]_vars

\* Two steps belong to different quarter sub-transforms of the whole array.
\* Variant of the independent steps: every two butterfly steps.
Siblings_AnyMixStep(s, t) == s.op # "swap" /\ t.op # "swap"
Siblings(s, t) == s.path # <<>> /\ t.path # <<>> /\ s.path[1] # t.path[1]
\* The steps that may come next when the four next.mix calls of the whole
\* array run in any order or interleaving: a step waits for every step the
\* code puts before it, except those of the other quarters.
Ready ==
    { k \in 1 .. Len(run.todo) :
        \A j \in 1 .. (k - 1) : Siblings(run.todo[j], run.todo[k]) }
StepAnyOrder ==
    /\ run.dir # 0
    /\ \E k \in Ready :
          /\ data' = Exec(run.dir, run.todo[k], data)
          /\ run' = [run EXCEPT !.todo = Without(@, k)]
    /\ UNCHANGED <<n, built, tables, pat, lazy, lin, out, calls, hist>>
\* The first call on the array.
BeginFirstDft == calls = <<>> /\ Begin(-1)
BeginFirstIdft == calls = <<>> /\ Begin(1)

NextAnyOrder == BeginFirstDft \/ BeginFirstIdft \/ StepAnyOrder \/ Return

SpecAnyOrder == Init /\ [][NextAnyOrder]_vars

\* bitpattern(pattern_size, ispow4) followed statement by statement: pat.l,
\* pat.n and pat.m are its l, n and m.
PatFrame == UNCHANGED <<n, built, tables, lazy, lin, data, out, calls, hist, run>>

\* n = (n*n) << 1; if (ispow4) n <<= 1; l.push_back(0); m = 1;
BitpatternCall ==
    /\ built /\ pat = NotCalled /\ lazy = NotLoaded /\ calls = <<>> /\ run = Idle
    /\ pat' = [pc |-> "while", l |-> <<0>>, m |-> 1,
               n |-> IF ispow4(n)
                     THEN (pattern_size(n) * pattern_size(n)) * 4
                     ELSE (pattern_size(n) * pattern_size(n)) * 2]
    /\ PatFrame

\* One pass of while ((m << 2) < n): n >>= 1; the inner loop; m <<= 1;
BitpatternIterate ==
    /\ pat.pc = "while" /\ pat.m * 4 < pat.n
    /\ pat' = [pat EXCEPT !.n = pat.n \div 2,
                          !.l = BitpatternPush(pat.l, pat.n \div 2, pat.m, 0),
                          !.m = pat.m * 2]
    /\ PatFrame

\* return l;
BitpatternReturn ==
    /\ pat.pc = "while" /\ ~(pat.m * 4 < pat.n)
    /\ pat' = [pat EXCEPT !.pc = "returned"]
    /\ PatFrame

NextBitpattern == BitpatternCall \/ BitpatternIterate \/ BitpatternReturn

SpecBitpattern == Init /\ [][NextBitpattern]_vars

Loaded == lazy # NotLoaded
LazyFrame == UNCHANGED <<n, built, tables, pat, lin, data, out, calls, hist, run>>

\* The earlier variant.  The program starts: its static tables are zero.
LazyLoad ==
    /\ built /\ n >= 4 /\ n <= MaxLazyN /\ lazy = NotLoaded /\ calls = <<>> /\ run = Idle
    /\ lazy' = LazyInit(n)
    /\ LazyFrame


\* Radix4(): if (!t1[0].real()) decides between the loop and nothing.
Radix4Guard(c) ==
    /\ Loaded /\ lazy.ctx[c].pc = "start"
    /\ lazy' = [lazy EXCEPT !.ctx[c] =
                    IF At(lazy.t[1], 0).re = RZero
                    THEN [@ EXCEPT !.pc = "fill"]
                    ELSE [@ EXCEPT !.pc = "mix", !.i = 1, !.skipped = TRUE]]
    /\ LazyFrame

\* One store of the loop of Radix4(): t1[i] = ..., t2[i] = ... or t3[i] = ...
Radix4Fill(c) ==
    /\ Loaded /\ lazy.ctx[c].pc = "fill"
    /\ LET i == lazy.ctx[c].i
           k == lazy.ctx[c].k
           last == (k = 3) /\ (i + 1 >= n \div 4)
       IN  lazy' = [lazy EXCEPT
                       !.t[FillTable(k)][i + 1] = LazyEntry(n, FillTable(k), i),
                       !.ctx[c] = [@ EXCEPT
                                      !.pc = IF last THEN "mix" ELSE "fill",
                                      !.k = IF k = 3 THEN 1 ELSE k + 1,
                                      !.i = IF last THEN 1
                                            ELSE IF k = 3 THEN i + 1 ELSE i]]
    /\ LazyFrame

\* One pass of the loop of Radix4::mix: it reads t1[i0], t2[i0], t3[i0].
Radix4Mix(c) ==
    /\ Loaded /\ lazy.ctx[c].pc = "mix" /\ lazy.ctx[c].i < n \div 4
    /\ lazy' = [lazy EXCEPT !.ctx[c] =
                    [@ EXCEPT !.i = @ + 1,
                              !.stale = @ \/ \E k \in 1 .. 3 :
                                  At(lazy.t[k], lazy.ctx[c].i) = CZero]]
    /\ LazyFrame

\* Radix4::mix returns.
Radix4Return(c) ==
    /\ Loaded /\ lazy.ctx[c].pc = "mix" /\ lazy.ctx[c].i >= n \div 4
    /\ lazy' = [lazy EXCEPT !.ctx[c].pc = "done"]
    /\ LazyFrame

Guards == \E c \in Contexts : Radix4Guard(c)
Fills == \E c \in Contexts : Radix4Fill(c)
Mixes == \E c \in Contexts : Radix4Mix(c)
Returns == \E c \in Contexts : Radix4Return(c)

NextLazy == LazyLoad \/ Guards \/ Fills \/ Mixes \/ Returns

SpecLazy == Init /\ [][NextLazy]_vars

\* ------------------------------------------------------------ the claims
\* The last call made, the in-place array before it, what it was given.
Last == calls[Len(calls)]
Before == hist[Len(hist) - 1]
Called(name) == calls # <<>> /\ Last = name

\* z * e^(2*pi*i*j/RingN), from the definition of a rotation.
Rot(z, j) ==
    Cx(RSub(RMul(z.re, RCos(j)), RMul(z.im, RSin(j))),
       RAdd(RMul(z.re, RSin(j)), RMul(z.im, RCos(j))))

RECURSIVE RefSum(_, _, _, _, _)
\* SUM over i in [i0, N) of x[i] * e^(D*2*pi*i*i*k/N)
RefSum(D, N, x, k, i) ==
    IF i >= N THEN CZero
    ELSE CAdd(Rot(At(x, i), D * i * k * (RingN \div N)), RefSum(D, N, x, k, i + 1))

\* The unnormalised DFT (D = -1) and inverse DFT (D = 1) by definition.
RefDFT(D, N, x) == [k \in 1 .. N |-> RefSum(D, N, x, k - 1, 0)]

\* C1: after the in-place forward transform FFT::dft the array holds the
\* unnormalised DFT of what it held before: output[k] is the sum over i of
\* x[i]*w^(i*k) with w = e^(-2*pi*i/N), for every k in [0, N).
C1_DftIsDFT == (calls = <<"dft">>) => data = RefDFT(-1, n, hist[1])
C1_Witness ==
    /\ n = 16 /\ calls = <<"dft">>
    /\ hist[1] = Combine(Form(16, 1, CInt(2, 1), CInt(-1, 3)))

\* C2: after the in-place inverse transform FFT::idft the array holds the sum
\* over i of x[i]*e^(+2*pi*i*i*k/N) for every k, with no 1/N normalisation.
C2_IdftIsInverseDFT == (calls = <<"idft">>) => data = RefDFT(1, n, hist[1])
C2_Witness == n = 8 /\ calls = <<"idft">> /\ hist[1] = Dense(8)

\* C3: dft then idft on the same array, and idft then dft, leave N*x[i] at
\* every index i.
RoundTrip ==
    /\ Len(calls) >= 2
    /\ <<calls[Len(calls) - 1], Last>> \in {<<"dft", "idft">>, <<"idft", "dft">>}
C3_RoundTripScalesByN ==
    RoundTrip => data = Scale(CInt(n, 0), hist[Len(hist) - 2])
C3_Witness == n = 16 /\ calls = <<"dft", "idft">> /\ hist[1] = Dense(16)

\* C4: the out-of-place call dft(in, out) / idft(in, out) leaves in out the
\* sequence the in-place call dft(data) / idft(data) leaves in a copy of in.
C4_OutOfPlaceEqualsInPlace ==
    /\ Called("dft_out") => out = TransformInPlace(-1, n, Before)
    /\ Called("idft_out") => out = TransformInPlace(1, n, Before)
C4_Witness == n = 16 /\ calls = <<"idft", "dft_out">> /\ hist[1] = Dense(16)

\* C5: an out-of-place call never writes to in: every element of in is after
\* the call what it was before it.
C5_InputUntouched ==
    (Called("dft_out") \/ Called("idft_out")) => data = Before
C5_Witness ==
    /\ n = 8 /\ calls = <<"dft_out", "idft_out">>
    /\ out # Zeros(8) /\ data = Dense(8)

\* C6: for the input that is 0 except the value 1 at index 1, the forward
\* transform leaves the unit root e^(-2*pi*i*k/N) at every k, of magnitude 1.
UnitRoot(N, k) == Cx(RCos(0 - k * (RingN \div N)), RSin(0 - k * (RingN \div N)))
SquaredMagnitude(z) == RAdd(RMul(z.re, z.re), RMul(z.im, z.im))
C6_ImpulseResponseFlat ==
    (Called("dft") /\ Before = Impulse(n, 1)) =>
        \A k \in 0 .. (n - 1) :
            /\ At(data, k) = UnitRoot(n, k)
            /\ SquaredMagnitude(At(data, k)) = ROne
C6_Witness == n = 16 /\ calls = <<"dft">> /\ hist[1] = Impulse(16, 1)

\* C7: dft(a*x + b*y) = a*dft(x) + b*dft(y) element-wise.
C7_Linearity ==
    (calls = <<"dft">>) =>
        data = Plus(Scale(lin.a, TransformInPlace(-1, n, lin.x)),
                    Scale(lin.b, TransformInPlace(-1, n, lin.y)))
C7_Witness ==
    /\ n = 16 /\ calls = <<"dft">> /\ lin.a = CInt(2, 1) /\ lin.b = CInt(-1, 3)
    /\ lin.x = Impulse(16, 1)

\* C8: the size check accepts exactly the powers of two greater than 1, and
\* a rejected length is refused before any sample is read or written.
IsPowerOfTwo(N) == \E k \in 0 .. MaxLog2N : N = Pow2(k)
C8_SizeCheckExact ==
    /\ built <=> (n > 1 /\ IsPowerOfTwo(n))
    /\ ~built => (calls = <<>> /\ data = Combine(lin) /\ out = Zeros(n))
    /\ calls # <<>> => built
C8_Witness == n = 12 /\ ~built /\ calls = <<>> /\ data = Dense(12)

\* C9: at N = 2 every transform, in either direction, in place or not, gives
\* (a0 + a1, a0 - a1) for the input (a0, a1); reindex is the identity there.
SumDifference(x) == <<CAdd(x[1], x[2]), CSub(x[1], x[2])>>
C9_TwoPoint ==
    (n = 2 /\ calls # <<>>) =>
        /\ reindex(2, Before) = Before
        /\ reindexOut(2, Mem(Before, Zeros(2))).out = Before
        /\ Last \in {"dft", "idft"} => data = SumDifference(Before)
        /\ Last \in {"dft_out", "idft_out"} => out = SumDifference(Before)
C9_Witness ==
    /\ n = 2 /\ calls = <<"idft", "dft_out">>
    /\ hist[1] = <<CInt(1, -2), CInt(2, -1)>>

\* C10: four1plus, Four1tmpl::fft and FFT::dft leave the same output sequence
\* in the array for the same input.
C10_ForwardImplementationsAgree ==
    Len(calls) = 1 =>
        /\ data = four1plus(n, hist[1])
        /\ data = Four1tmplFft(n, hist[1])
        /\ data = TransformInPlace(-1, n, hist[1])
C10_Witness ==
    /\ n = 16 /\ calls = <<"four1tmpl">> /\ hist[1] = Dense(16)

\* The steps a call in direction D makes on buf, with what each accesses.
RECURSIVE TraceOf(_, _, _)
TraceOf(D, todo, buf) ==
    IF todo = <<>> THEN <<>>
    ELSE << [step |-> Head(todo), acc |-> Accessed(Head(todo), buf)] >>
             \o TraceOf(D, Tail(todo), Exec(D, Head(todo), buf))
Elements(seq) == { seq[k] : k \in 1 .. Len(seq) }
InCall == run.dir # 0
Input == hist[Len(hist)]

\* C11: a call makes a bounded number of steps, none of which can fail (every
\* element it accesses is an element of the array), and the steps and the
\* elements they access, in order, are those the same call makes on any
\* other samples (here: on zeros): they depend on N alone.
C11_StepsDependOnNAlone ==
    InCall =>
        /\ Len(run.trace) + Len(run.todo) = Len(Schedule(n))
        /\ \A k \in 1 .. Len(run.trace) :
              Elements(run.trace[k].acc) \subseteq 0 .. (n - 1)
        /\ run.trace = SubSeq(TraceOf(run.dir, Schedule(n), Zeros(n)),
                              1, Len(run.trace))
C11_Witness ==
    /\ n = 16 /\ run.dir = -1 /\ run.todo = <<>> /\ Input = Dense(16)
    /\ Len(run.trace) > 16

\* The last step made, and whether it is a radix-4 butterfly (index 0 or a
\* pass of the loop).
LastStep == run.trace[Len(run.trace)].step
MadeButterfly ==
    InCall /\ run.trace # <<>> /\ LastStep.op \in {"index0", "loop"}
\* Element i of quarter q of the block a butterfly step works on.
Quarter(s, q, buf) == At(buf, s.base + s.i + q * (s.N \div 4))
\* The unit root with angle h*k*theta, theta = D*2*pi/N.
RootOfUnity(D, N, h, k) ==
    Cx(RCos(D * h * k * (RingN \div N)), RSin(D * h * k * (RingN \div N)))
\* u0 .. u3 of the butterfly s on the array buf: Q0[i], Q2[i]*t1[i],
\* Q1[i]*t2[i], Q3[i]*t3[i].
U0(s, buf) == Quarter(s, 0, buf)
U1(D, s, buf) == CTimes(Quarter(s, 2, buf), RootOfUnity(D, s.N, 1, s.i))
U2(D, s, buf) == CTimes(Quarter(s, 1, buf), RootOfUnity(D, s.N, 2, s.i))
U3(D, s, buf) == CTimes(Quarter(s, 3, buf), RootOfUnity(D, s.N, 3, s.i))
\* (x, y) -> (-y, x) and (x, y) -> (y, -x)
TurnLeft(z) == Cx(RNeg(z.im), z.re)
TurnRight(z) == Cx(z.im, RNeg(z.re))
\* b1 as the step used it: output[i + N/4] = u0 - u2 + b1.
B1Used ==
    CSub(Quarter(LastStep, 1, data),
         CSub(U0(LastStep, run.prev), U2(run.dir, LastStep, run.prev)))
B1Argument ==
    CSub(U1(run.dir, LastStep, run.prev), U3(run.dir, LastStep, run.prev))

\* C12 as stated: the rotation that forms b1 maps (x, y) to (-y, x) in the
\* forward transform (D = -1) and to (y, -x) in the inverse (D = +1).
C12_RotationAsStated ==
    MadeButterfly =>
        B1Used = IF run.dir < 0 THEN TurnLeft(B1Argument) ELSE TurnRight(B1Argument)
\* C12 amended: the rotation that forms b1 maps (x, y) to (y, -x) in the
\* forward transform (D = -1) and to (-y, x) in the inverse (D = +1).
C12_Rotation ==
    MadeButterfly =>
        B1Used = IF run.dir < 0 THEN TurnRight(B1Argument) ELSE TurnLeft(B1Argument)
C12_Witness ==
    /\ MadeButterfly /\ n = 16 /\ run.dir = -1 /\ LastStep.op = "loop"
    /\ B1Argument # CZero

IsPowerOfFour(N) == \E k \in 0 .. MaxLog2N : N = Pow2(2 * k)
\* C13 as stated: the bit-reversal table of a length N has N/4 entries when
\* N is a power of four and N/2 entries otherwise.
C13_TableSizeAsStated ==
    built => Len(Pattern(n)) = IF IsPowerOfFour(n) THEN n \div 4 ELSE n \div 2
\* C13 amended: the bit-reversal table of a length N has M entries with
\* 4*M*M = N when N is a power of four and 2*M*M = N otherwise.
C13_TableSize ==
    built =>
        LET M == Len(Pattern(n))
        IN  /\ M = pattern_size(n)
            /\ IF IsPowerOfFour(n) THEN 4 * M * M = n ELSE 2 * M * M = n
C13_Witness == built /\ n = 16 /\ Pattern(n) = <<0, 8>> /\ calls # <<>>

\* log2 of a power of two, and p with its lowest `bits` bits reversed.
RECURSIVE Log2(_)
Log2(N) == IF N <= 1 THEN 0 ELSE 1 + Log2(N \div 2)
RECURSIVE Rev(_, _)
Rev(p, bits) ==
    IF bits = 0 THEN 0
    ELSE (p % 2) * Pow2(bits - 1) + Rev(p \div 2, bits - 1)
BitReversed(x) == [p \in 1 .. Len(x) |-> At(x, Rev(p - 1, Log2(Len(x))))]
\* The reindex step of the call is complete and no butterfly step is made.
Reindexed == InCall /\ Len(run.trace) = Len(ReindexSteps(n))

\* C14: after the in-place reindex step position p holds the sample that was
\* at index rev(p), rev reversing the log2(N) bits of p, for every p.
C14_ReindexIsBitReversal ==
    Reindexed =>
        /\ data = BitReversed(Input)
        /\ reindex(n, Input) = BitReversed(Input)
C14_Witness ==
    /\ Reindexed /\ n = 16 /\ Input = Dense(16)
    /\ At(data, 1) = At(Input, 8) /\ At(data, 3) = At(Input, 12)

\* rotate90 of the direction D, and b0, b1 of the butterfly s on buf.
Rotate90(D, z) == IF D < 0 THEN TurnRight(z) ELSE TurnLeft(z)
B0(D, s, buf) == CAdd(U1(D, s, buf), U3(D, s, buf))
B1(D, s, buf) == Rotate90(D, CSub(U1(D, s, buf), U3(D, s, buf)))
\* The array the combination formula gives for index s.i from the array buf:
\* the four outputs of that index, every other element as it was.
Combined(D, s, buf) ==
    [p \in 1 .. Len(buf) |->
        CASE p - 1 = s.base + s.i ->
                CAdd(CAdd(U0(s, buf), U2(D, s, buf)), B0(D, s, buf))
          [] p - 1 = s.base + s.i + s.N \div 4 ->
                CAdd(CSub(U0(s, buf), U2(D, s, buf)), B1(D, s, buf))
          [] p - 1 = s.base + s.i + 2 * (s.N \div 4) ->
                CSub(CAdd(U0(s, buf), U2(D, s, buf)), B0(D, s, buf))
          [] p - 1 = s.base + s.i + 3 * (s.N \div 4) ->
                CSub(CSub(U0(s, buf), U2(D, s, buf)), B1(D, s, buf))
          [] OTHER -> buf[p]]

\* C15: the butterfly of index i writes output[i] = u0+u2+b0, output[i+N/4] =
\* u0-u2+b1, output[i+N/2] = u0+u2-b0, output[i+3N/4] = u0-u2-b1 with u0 =
\* Q0[i], u1 = Q2[i]*t1[i], u2 = Q1[i]*t2[i], u3 = Q3[i]*t3[i], b0 = u1+u3,
\* b1 = rotate90(u1-u3), all four inputs read before any output is written.
C15_ButterflyCombination ==
    MadeButterfly => data = Combined(run.dir, LastStep, run.prev)
C15_Witness ==
    /\ MadeButterfly /\ n = 16 /\ run.dir = 1 /\ LastStep.op = "loop"
    /\ LastStep.i = 3 /\ Input = Dense(16)

\* Every step of the call is made.
Done == InCall /\ run.todo = <<>>
\* The steps of Butterfly::mix the call made, in order: those after reindex.
MixTrace == SubSeq(run.trace, Len(ReindexSteps(n)) + 1, Len(run.trace))
MixOps == [k \in 1 .. Len(MixTrace) |-> << MixTrace[k].step.op, MixTrace[k].step.N >>]
MixStepsMade == { MixTrace[k].step : k \in 1 .. Len(MixTrace) }

\* C16: the recursion N -> N/4 -> ... ends at a leaf of length 2 exactly when
\* N is not a power of four and at a leaf of length 1 exactly when it is; no
\* other length below 4 is reached; N = 8 runs four two-point leaves under
\* one radix-4 combination.
C16_RecursionStructure ==
    Done =>
        /\ \A s \in MixStepsMade :
              /\ s.N * Pow2(2 * Len(s.path)) = n
              /\ s.op = "leaf1" => s.N = 1
              /\ s.op = "radix2" => s.N = 2
              /\ s.op \in {"index0", "loop"} => s.N >= 4
        /\ (\E s \in MixStepsMade : s.op = "radix2") <=> ~IsPowerOfFour(n)
        /\ (\E s \in MixStepsMade : s.op = "leaf1") <=> IsPowerOfFour(n)
        /\ n = 8 => MixOps = << <<"radix2", 2>>, <<"radix2", 2>>, <<"radix2", 2>>,
                                <<"radix2", 2>>, <<"index0", 8>>, <<"loop", 8>> >>
C16_Witness == Done /\ n = 8 /\ Len(MixTrace) = 6 /\ Input = Dense(8)

\* w^e for e >= 0 by repeated complex multiplication, and w^e for any e of a
\* w of magnitude 1 (its inverse is its conjugate).
RECURSIVE CPower(_, _)
CPower(w, e) == IF e = 0 THEN CInt(1, 0) ELSE CTimes(w, CPower(w, e - 1))
UnitPower(w, e) == IF e >= 0 THEN CPower(w, e) ELSE CPower(Cx(w.re, RNeg(w.im)), 0 - e)
\* w = e^(2*pi*i/N)
PrimitiveRoot(N) == Cx(RCos(RingN \div N), RSin(RingN \div N))
Table(D, N, h) ==
    CASE h = 1 -> Twiddle(D, N).t1 [] h = 2 -> Twiddle(D, N).t2 [] h = 3 -> Twiddle(D, N).t3
\* The program is instantiated for a length with radix-4 butterflies, and no
\* call is made yet.
TablesBuilt == built /\ n >= 4 /\ calls = <<>> /\ run = Idle

\* C17: for N >= 4, D in {-1, +1} and h in {1, 2, 3}, table t_h has N/4
\* entries and t_h[k] is the unit root of angle h*k*D*2*pi/N, that is
\* w^(D*h*k) for w = e^(2*pi*i/N).
C17_TwiddleTables ==
    TablesBuilt =>
        \A D \in {-1, 1}, h \in 1 .. 3 :
            /\ Len(Table(D, n, h)) = n \div 4
            /\ \A k \in 0 .. (n \div 4 - 1) :
                  /\ At(Table(D, n, h), k) = RootOfUnity(D, n, h, k)
                  /\ At(Table(D, n, h), k) = UnitPower(PrimitiveRoot(n), D * h * k)
C17_Witness ==
    /\ TablesBuilt /\ n = 16
    /\ At(Table(-1, 16, 3), 3) = UnitPower(PrimitiveRoot(16), -9)
    /\ At(Table(-1, 16, 3), 3) # At(Table(1, 16, 3), 3)

\* How many of the mix steps made are the step s.
TimesMade(s) == Cardinality({ k \in 1 .. Len(MixTrace) : MixTrace[k].step = s })
MadeIndex0 == InCall /\ run.trace # <<>> /\ LastStep.op = "index0"

\* C18: t_h[0] = (1, 0) for every h, so the index 0 butterfly made without
\* multiplications gives what the general butterfly of the loop gives for
\* i = 0; the loop then makes the butterfly of every i in [1, N/4) once.
C18_IndexZeroShortcut ==
    /\ MadeIndex0 =>
          /\ \A h \in 1 .. 3 : At(Table(run.dir, LastStep.N, h), 0) = CInt(1, 0)
          /\ data = MixBody(run.dir, Twiddle(run.dir, LastStep.N), run.prev,
                            LastStep.base, LastStep.N \div 4, 0)
          /\ data = Combined(run.dir, LastStep, run.prev)
    /\ Done =>
          \A s \in MixStepsMade :
              /\ s.op = "index0" =>
                    /\ TimesMade(s) = 1
                    /\ \A i \in 1 .. (s.N \div 4 - 1) :
                          TimesMade(MixStep("loop", s.N, s.base, i, s.path)) = 1
              /\ s.op = "loop" =>
                    /\ s.i \in 1 .. (s.N \div 4 - 1)
                    /\ TimesMade(MixStep("index0", s.N, s.base, 0, s.path)) = 1
C18_Witness ==
    /\ Done /\ n = 16 /\ run.dir = -1 /\ Input = Dense(16)
    /\ TimesMade(MixStep("loop", 16, 0, 3, <<>>)) = 1

\* The block of path q lies inside the block of path p.
StrictPrefix(p, q) == Len(p) < Len(q) /\ SubSeq(q, 1, Len(p)) = p
\* The step t is made before the last step.
MadeEarlier(t) == \E j \in 1 .. (Len(run.trace) - 1) : run.trace[j].step = t
MadeStep == InCall /\ run.trace # <<>>

\* C19: within a call every swap of reindex is made before the first step of
\* the butterflies, and a combination step of a block is made only when
\* every step of the four quarter sub-transforms of that block is made.
C19_PermuteThenMix ==
    MadeStep =>
        /\ LastStep.op # "swap" =>
              /\ \A t \in Elements(ReindexSteps(n)) : MadeEarlier(t)
              /\ Len(run.trace) = Len(ReindexSteps(n)) + 1 =>
                    run.prev = BitReversed(Input)
        /\ LastStep.op = "swap" => Len(run.trace) <= Len(ReindexSteps(n))
        /\ LastStep.op \in {"index0", "loop"} =>
              \A t \in Elements(MixSteps(n, 0, <<>>)) :
                  StrictPrefix(LastStep.path, t.path) => MadeEarlier(t)
C19_Witness ==
    /\ MadeStep /\ n = 16 /\ LastStep = MixStep("index0", 16, 0, 0, <<>>)
    /\ MadeEarlier(MixStep("index0", 4, 12, 0, <<3>>))

\* The block of the sub-transform reached by the quarters path[1], path[2],
\* ... from the whole array of N elements: its first index and its length.
RECURSIVE BlockStart(_, _)
BlockStart(N, path) ==
    IF path = <<>> THEN 0
    ELSE path[1] * (N \div 4) + BlockStart(N \div 4, Tail(path))
BlockLen(N, path) == N \div Pow2(2 * Len(path))
Block(N, path) == BlockStart(N, path) .. (BlockStart(N, path) + BlockLen(N, path) - 1)
\* The steps of todo that are not in the set left, in the order of todo.
RECURSIVE StepsNotIn(_, _)
StepsNotIn(todo, left) ==
    IF todo = <<>> THEN <<>>
    ELSE IF Head(todo) \in left THEN StepsNotIn(Tail(todo), left)
    ELSE << Head(todo) >> \o StepsNotIn(Tail(todo), left)
\* The array after the steps of todo, made one after the other on buf.
RECURSIVE ExecAll(_, _, _)
ExecAll(D, todo, buf) ==
    IF todo = <<>> THEN buf
    ELSE ExecAll(D, Tail(todo), Exec(D, Head(todo), buf))
\* The steps made so far, in the order the code makes them.
MadeInCodeOrder == StepsNotIn(Schedule(n), Elements(run.todo))
\* The first position from k on at which the sequence a differs from b.
RECURSIVE FirstDifference(_, _, _)
FirstDifference(a, b, k) ==
    IF k > Len(b) THEN k
    ELSE IF a[k] # b[k] THEN k
    ELSE FirstDifference(a, b, k + 1)
\* The step made between two states: the one taken out of todo.
StepMade == run.todo[FirstDifference(run.todo, run'.todo, 1)]

\* The call is about to make its first step.
Begun == InCall /\ data = run.prev /\ run.todo = Schedule(n)
\* Every step of a sub-transform is made and no step of the combination of
\* the whole array is.
BeforeCombination ==
    /\ InCall /\ n >= 4
    /\ run.todo = << MixStep("index0", n, 0, 0, <<>>) >> \o MixLoopSteps(n, 0, <<>>, 1)
\* Every step of a quarter sub-transform accesses only elements of its own
\* quarter, at every level.
OwnQuarterOnly ==
    Begun =>
        /\ \A s \in Elements(MixSteps(n, 0, <<>>)) :
              /\ s.base = BlockStart(n, s.path) /\ s.N = BlockLen(n, s.path)
              /\ Elements(Footprint(s)) \subseteq Block(n, s.path)
        /\ Cardinality(Elements(Schedule(n))) = Len(Schedule(n))
\* Whatever the order in which the steps of the four quarters were made, the
\* array before the combination and the array at the end are those of the
\* code's order.
AnyOrderSameArray ==
    /\ BeforeCombination => data = ExecAll(run.dir, MadeInCodeOrder, run.prev)
    /\ Done => data = TransformInPlace(run.dir, n, run.prev)
\* A step changes no element outside the elements it accesses.
StepStaysInBlock ==
    [][(InCall /\ run'.dir = run.dir /\ run'.todo # run.todo) =>
          \A i \in (0 .. (n - 1)) \ Elements(Footprint(StepMade)) :
              At(data', i) = At(data, i)]_vars
\* C20: the four quarter sub-transforms of a level access only their own
\* quarter (the one started at q*N/4 only the indices q*N/4 .. (q+1)*N/4 - 1)
\* and change nothing else, so any order or interleaving of their steps gives
\* the same array before the combination and the same final result.
C20_SiblingIndependence ==
    []OwnQuarterOnly /\ []AnyOrderSameArray /\ StepStaysInBlock
\* The last quarter is combined while the first has made no step, on samples
\* its butterfly changes.
C20_Witness ==
    /\ InCall /\ n = 16
    /\ MixStep("index0", 4, 12, 0, <<3>>) \notin Elements(run.todo)
    /\ MixStep("leaf1", 1, 0, 0, <<0, 0>>) \in Elements(run.todo)
    /\ data # BitReversed(run.prev)

\* The call an action made, if it made one.
CallMade == IF Len(calls') > Len(calls) THEN calls'[Len(calls')] ELSE "none"
\* No action writes the tables; an in-place call writes data alone, an
\* out-of-place call out alone.
OnlyTheBufferWritten ==
    [][/\ tables' = tables
       /\ CallMade \in {"dft", "idft"} => out' = out
       /\ CallMade \in {"dft_out", "idft_out"} => data' = data]_vars
\* The tables hold what the butterflies of either direction and reindex use.
TablesAsUsed ==
    built =>
        /\ tables.bit = Pattern(n)
        /\ \A D \in {-1, 1} : \A k \in Levels(n) :
              tables.twiddle[D][k] = Twiddle(D, k)

\* C21: over any sequence of dft / idft calls, in place or out of place, the
\* twiddle tables and the bit reversal pattern are never written, a call
\* modifies only its designated buffer (data, or out), and the tables of a
\* given (N, direction) hold the same values in every call.
C21_TablesNeverWritten == OnlyTheBufferWritten /\ []TablesAsUsed
C21_Witness ==
    /\ n = 16 /\ calls = <<"dft_out", "idft">>
    /\ out # Zeros(16) /\ data # hist[1]
    /\ tables.twiddle[-1][16] # tables.twiddle[1][16]

\* The entry (table and index) a context is about to write, if any.
AboutToWrite(c) ==
    IF lazy.ctx[c].pc = "fill"
    THEN { << FillTable(lazy.ctx[c].k), lazy.ctx[c].i >> } ELSE {}
\* The entries a context is about to read, if any.
AboutToRead(c) ==
    IF lazy.ctx[c].pc = "start" THEN { << 1, 0 >> }
    ELSE IF lazy.ctx[c].pc = "mix" /\ lazy.ctx[c].i < n \div 4
    THEN { << k, lazy.ctx[c].i >> : k \in 1 .. 3 } ELSE {}
\* Some table entry is written.
SomeEntryWritten ==
    \E k \in 1 .. 3 : \E i \in 0 .. (n \div 4 - 1) : At(lazy.t[k], i) # CZero
\* Two contexts are each about to write the same entry.
SameEntryWrites ==
    \E c, d \in Contexts : c # d /\ AboutToWrite(c) \cap AboutToWrite(d) # {}
\* A context is about to read an entry that another is about to write.
ReadWhileWritten ==
    \E c, d \in Contexts : c # d /\ AboutToRead(c) \cap AboutToWrite(d) # {}

\* C22: the guard if (!t1[0].real()) is the only thing between the contexts
\* and the tables.  What it does give: t1[0] is the first entry written, a
\* context that found the tables initialised found t1[0] written, and only
\* such a context reads an unwritten entry in mix.  What it does not give is
\* in the witness: two contexts past the guard about to write the same
\* entry, and a third that passed the guard as initialised and read entries
\* of t1 / t2 / t3 nobody had written.
C22_LazyInitGuard ==
    Loaded =>
        /\ SomeEntryWritten => At(lazy.t[1], 0) = LazyEntry(n, 1, 0)
        /\ \A c \in Contexts :
              /\ lazy.ctx[c].skipped => At(lazy.t[1], 0) # CZero
              /\ lazy.ctx[c].stale => lazy.ctx[c].skipped
C22_Witness ==
    /\ Loaded /\ n = 16
    /\ SameEntryWrites /\ ReadWhileWritten
    /\ \E c \in Contexts : lazy.ctx[c].skipped /\ lazy.ctx[c].stale

\* The table starts as the single offset 0, the running span as N.
StartsFromZero ==
    [][pat.pc = "none" /\ pat'.pc = "while" =>
          pat'.l = <<0>> /\ pat'.n = n /\ pat'.m = 1]_vars
\* A pass halves the span and appends e + span for every entry e, in order.
DoublesByPass ==
    [][pat.pc = "while" /\ pat'.pc = "while" =>
          /\ pat'.n * 2 = pat.n
          /\ Len(pat'.l) = 2 * Len(pat.l)
          /\ SubSeq(pat'.l, 1, Len(pat.l)) = pat.l
          /\ \A j \in 1 .. Len(pat.l) :
                pat'.l[Len(pat.l) + j] = pat.l[j] + pat'.n]_vars
\* m is the size of the table; the size never exceeds the pattern size, and
\* the loop is left exactly at the pattern size, with the table of reindex.
StopsAtPatternSize ==
    pat.pc # "none" =>
        /\ Len(pat.l) = pat.m
        /\ pat.m <= pattern_size(n)
        /\ pat.pc = "returned" => pat.m = pattern_size(n)
        /\ pat.m * 4 < pat.n <=> pat.m < pattern_size(n)
        /\ pat.pc = "returned" =>
              pat.l = bitpattern(pattern_size(n), ispow4(n)) /\ pat.l = tables.bit

MulOperands ==
    IF MadeStep /\ LastStep.op = "loop"
    THEN { << Quarter(LastStep, 2, run.prev), At(Twiddle(run.dir, LastStep.N).t1, LastStep.i) >>,
           << Quarter(LastStep, 1, run.prev), At(Twiddle(run.dir, LastStep.N).t2, LastStep.i) >>,
           << Quarter(LastStep, 3, run.prev), At(Twiddle(run.dir, LastStep.N).t3, LastStep.i) >> }
    ELSE {}

\* C24: mul(z, w) is (z.re*w.re - z.im*w.im, z.re*w.im + z.im*w.re) on
\* every pair the butterflies give it, it is the operator* of cxlr.hpp, and
\* mul(z, w) = mul(w, z).
C24_MulIsLimitedRangeProduct ==
    \A p \in MulOperands :
        /\ mul(p[1], p[2]).re = RSub(RMul(p[1].re, p[2].re), RMul(p[1].im, p[2].im))
        /\ mul(p[1], p[2]).im = RAdd(RMul(p[1].re, p[2].im), RMul(p[1].im, p[2].re))
        /\ mul(p[1], p[2]) = CxlrMul(p[1], p[2])
        /\ mul(p[1], p[2]) = mul(p[2], p[1])
C24_Witness ==
    /\ n = 16
    /\ \E p \in MulOperands :
          /\ p[1].re # RZero /\ p[1].im # RZero
          /\ p[2].re # RZero /\ p[2].im # RZero
          /\ mul(p[1], p[2]) # p[1] /\ mul(p[1], p[2]) # p[2]

\* The assignments reindex(in, out) of the last call made, on the arrays
\* the call was given, and the indices of out they wrote.
Assignments == reindexOut(n, Mem(data, Zeros(n))).log
\* Whether the assignments of r.log write every index of r.out exactly once,
\* each from its own index of in, with in[b] left at a for each << a, b >>.
WrittenOnce(r, in) ==
    /\ Len(r.log) = Len(in)
    /\ { r.log[k][1] : k \in 1 .. Len(r.log) } = 0 .. (Len(in) - 1)
    /\ { r.log[k][2] : k \in 1 .. Len(r.log) } = 0 .. (Len(in) - 1)
    /\ \A k \in 1 .. Len(r.log) : At(r.out, r.log[k][1]) = At(in, r.log[k][2])

\* C25: reindex(in, out) assigns every out[q], q in 0 .. N-1, exactly once,
\* each from an element of in, and no element of in is used twice; what out
\* held before is nowhere left.
C25_OutWrittenOnce ==
    (Called("dft_out") \/ Called("idft_out")) =>
        WrittenOnce(reindexOut(n, Mem(data, Zeros(n))), data)
C25_Witness ==
    /\ n = 8 /\ calls = <<"dft", "idft_out">> /\ data # hist[1]
    /\ << 3, 6 >> \in Elements(Assignments)

\* The indices of in and of out that reindex(in, out) uses.
OutOfPlaceIndices ==
    { Assignments[k][1] : k \in 1 .. Len(Assignments) }
        \cup { Assignments[k][2] : k \in 1 .. Len(Assignments) }

\* C26: every index of the array that the two reindex overloads and the
\* butterflies of every level use lies in 0 .. N-1 (for a butterfly also
\* inside its block), every subscript of the pattern in 0 .. pattern size - 1
\* and every subscript of a twiddle table in 0 .. N/4 - 1 of its level.
C26_IndicesInRange ==
    Begun =>
        /\ \A s \in Elements(ReindexSteps(n)) : {s.i, s.j} \subseteq 0 .. (n - 1)
        /\ OutOfPlaceIndices \subseteq 0 .. (n - 1)
        /\ PatternSubscripts(n) \subseteq 0 .. (pattern_size(n) - 1)
        /\ Len(tables.bit) = pattern_size(n)
        /\ \A s \in Elements(MixSteps(n, 0, <<>>)) :
              /\ Elements(Footprint(s)) \subseteq s.base .. (s.base + s.N - 1)
              /\ Elements(Footprint(s)) \subseteq 0 .. (n - 1)
              /\ TwiddleSubscripts(s) \subseteq 0 .. (s.N \div 4 - 1)
              /\ s.op = "loop" => Len(tables.twiddle[run.dir][s.N].t1) = s.N \div 4
              /\ s.op = "loop" => Len(tables.twiddle[run.dir][s.N].t2) = s.N \div 4
              /\ s.op = "loop" => Len(tables.twiddle[run.dir][s.N].t3) = s.N \div 4
C26_Witness ==
    /\ Begun /\ n = 16
    /\ 1 \in PatternSubscripts(16)
    /\ MixStep("loop", 16, 0, 3, <<>>) \in Elements(run.todo)
    /\ SwapStep(14, 7) \in Elements(run.todo)

\* The swaps of reindex, and the number of them an index takes part in.
Swaps == ReindexSteps(n)
SwapsOf(q) == Cardinality({ k \in 1 .. Len(Swaps) : q \in {Swaps[k].i, Swaps[k].j} })

\* C27: in the in-place reindex no swap has equal operands and no index
\* takes part in more than one swap, and reindex applied to the reindexed
\* array gives back the array the call was given.
C27_ReindexIsInvolution ==
    Reindexed =>
        /\ \A k \in 1 .. Len(Swaps) : Swaps[k].i # Swaps[k].j
        /\ \A q \in 0 .. (n - 1) : SwapsOf(q) <= 1
        /\ reindex(n, data) = Input
        /\ reindex(n, reindex(n, Input)) = Input
C27_Witness ==
    /\ Reindexed /\ n = 8 /\ data # Input
    /\ SwapsOf(1) = 1 /\ SwapsOf(0) = 0 /\ Len(Swaps) = 2

\* The indices 0 .. N-1 as an array, to follow where each element goes.
Iota(N) == [q \in 1 .. N |-> q - 1]
\* j of the reverse-binary loop when its i is reached.
RECURSIVE LoopJ(_, _)
LoopJ(N, i) == IF i = 0 THEN 0 ELSE ReverseWhile(LoopJ(N, i - 1), N \div 2)

\* C28: the reindex of fft.hpp moves every element where the reverse-binary
\* loop of the earlier variants moves it, and that loop has j equal to the
\* bit reversal of i at every i (it swaps data[i] and data[j] when j > i).
C28_SamePermutationAsLoop ==
    Reindexed =>
        /\ data = ReverseLoop(n, Input, 0, 0)
        /\ reindex(n, Iota(n)) = ReverseLoop(n, Iota(n), 0, 0)
        /\ \A i \in 0 .. (n - 1) : LoopJ(n, i) = Rev(i, Log2(n))
C28_Witness ==
    /\ Reindexed /\ n = 16 /\ Input = Dense(16)
    /\ At(ReverseLoop(16, Iota(16), 0, 0), 5) = 10
    /\ data # Input

\* The lengths the size check accepts, up to the longest array.
Accepted == { N \in 0 .. MaxN : SizeCheck(N) }

\* C29: ispow4_impl(N, 1) is true exactly when N is a power of four; the
\* vector bitpattern(pattern_size, ispow4) returns has exactly pattern_size =
\* pattern_size_impl(N, 1) entries, as many as the array it is copied into;
\* no other accepted length has the same pattern_size and ispow4.
C29_PatternKey ==
    built =>
        /\ ispow4_impl(n, 1) <=> IsPowerOfFour(n)
        /\ Len(bitpattern(pattern_size(n), ispow4(n))) = pattern_size_impl(n, 1)
        /\ pat.pc = "returned" => Len(pat.l) = pattern_size_impl(n, 1)
        /\ Len(tables.bit) = pattern_size_impl(n, 1)
        /\ \A N \in Accepted :
              (pattern_size(N) = pattern_size(n) /\ ispow4(N) = ispow4(n)) => N = n
C29_Witness ==
    /\ n = 8 /\ pat.pc = "returned" /\ Len(pat.l) = 2
    /\ ~ispow4(8) /\ ispow4(16) /\ pattern_size(16) = 2

\* The entry i of a table is the reversal of i as a number of log2(N) bits.
ReversalTable(t) ==
    \A i \in 0 .. (Len(t) - 1) :
        /\ At(t, i) = Rev(i, Log2(n))
        /\ At(t, i) % (n \div pattern_size(n)) = 0
        /\ At(t, i) < n

====
